---- MODULE Spec2Model ----
(***************************************************************************)
(* Model of hrv.py: calculate_HRV_metrics (the metric engine) and          *)
(* process_HRV_files (the batch aggregator).                               *)
(*                                                                         *)
(* Numbers.  A timestamp of the csv file is held as an integer count of    *)
(* 1/TimeScale of the file's unit, so 0.8 is 4 and 800 is 4000.  The       *)
(* metrics are computed in exact arithmetic (sums as integers, the two     *)
(* square roots by an exact comparison of squares on multi-digit numbers)  *)
(* and rounded half-to-even as np.round does; where the code's binary      *)
(* floating point would land within one unit in the last place of a tie,   *)
(* the model takes the exact value.  A value rounded to one decimal is     *)
(* held in tenths (75.0 is 750).                                           *)
(***************************************************************************)
EXTENDS Integers, Sequences, FiniteSets, TLC

VARIABLES dataset, file_list_in, idx, hrv_results, calls, df, to_csv_calls, pc, ret

vars == <<dataset, file_list_in, idx, hrv_results, calls, df, to_csv_calls, pc, ret>>

----------------------------------------------------------------------------
(* Python values *)

PyNone == [py |-> "None"]
PyNaN == [py |-> "nan"]
PyInt(v) == [py |-> "int", v |-> v]
PyFloat(t) == [py |-> "float", tenths |-> t]

(* A cell of a dataframe column: <<v>>, or <<>> for a missing value (NaN). *)
NaN == <<>>

----------------------------------------------------------------------------
(* Program constants *)

TimeScale == 5
MinNN == 500
Thr50 == 50
Thr20 == 20
MsPerSecond == 1000
SecondsPerMinute == 60
Percent == 100

csv_suffix == <<".", "c", "s", "v">>
NN == <<"N", "N">>

----------------------------------------------------------------------------
(* Exact arithmetic on naturals of any size: little-endian digit sequences *)

BigBase == 100 * 100

RECURSIVE BigOf(_)
BigOf(v) == IF v = 0 THEN <<>> ELSE <<v % BigBase>> \o BigOf(v \div BigBase)

BigDigit(a, i) == IF i <= Len(a) THEN a[i] ELSE 0

RECURSIVE BigAddC(_, _, _, _)
BigAddC(a, b, i, c) ==
    IF i > Len(a) /\ i > Len(b)
    THEN (IF c = 0 THEN <<>> ELSE <<c>>)
    ELSE LET s == BigDigit(a, i) + BigDigit(b, i) + c
         IN  <<s % BigBase>> \o BigAddC(a, b, i + 1, s \div BigBase)

BigAdd(a, b) == BigAddC(a, b, 1, 0)

RECURSIVE BigScaleC(_, _, _, _)
BigScaleC(a, d, i, c) ==
    IF i > Len(a)
    THEN BigOf(c)
    ELSE LET s == a[i] * d + c
         IN  <<s % BigBase>> \o BigScaleC(a, d, i + 1, s \div BigBase)

(* a * d for a digit-sized d *)
BigScale(a, d) == BigScaleC(a, d, 1, 0)

RECURSIVE BigMul(_, _)
BigMul(a, b) ==
    IF b = <<>> THEN <<>>
    ELSE BigAdd(BigScale(a, Head(b)), <<0>> \o BigMul(a, Tail(b)))

RECURSIVE BigSubC(_, _, _, _)
BigSubC(a, b, i, br) ==
    IF i > Len(a) THEN <<>>
    ELSE LET d == a[i] - BigDigit(b, i) - br
         IN  IF d < 0 THEN <<d + BigBase>> \o BigSubC(a, b, i + 1, 1)
                      ELSE <<d>> \o BigSubC(a, b, i + 1, 0)

(* a - b, for a >= b *)
BigSub(a, b) == BigSubC(a, b, 1, 0)

RECURSIVE BigCmpAt(_, _, _)
BigCmpAt(a, b, i) ==
    IF i = 0 THEN 0
    ELSE IF BigDigit(a, i) < BigDigit(b, i) THEN -1
    ELSE IF BigDigit(a, i) > BigDigit(b, i) THEN 1
    ELSE BigCmpAt(a, b, i - 1)

BigCmp(a, b) == BigCmpAt(a, b, IF Len(a) > Len(b) THEN Len(a) ELSE Len(b))

BigLeq(a, b) == BigCmp(a, b) <= 0

BigSquare(v) == BigMul(BigOf(v), BigOf(v))

----------------------------------------------------------------------------
(* Sums over a column, by halving so that long recordings stay shallow *)

RECURSIVE SumRange(_, _, _)
SumRange(f, lo, hi) ==
    IF lo > hi THEN 0
    ELSE IF lo = hi THEN f[lo]
    ELSE LET mid == (lo + hi) \div 2
         IN  SumRange(f, lo, mid) + SumRange(f, mid + 1, hi)

SumCol(f) == SumRange(f, 1, Len(f))

RECURSIVE SeqSum(_)
SeqSum(s) == IF s = <<>> THEN 0 ELSE Head(s) + SeqSum(Tail(s))

(* The sum of the squares of a column of integers, as a multi-digit number *)
BigSumSq(f) ==
    BigAdd(<<0>> \o BigOf(SumCol([i \in DOMAIN f |-> (f[i] * f[i]) \div BigBase])),
           BigOf(SumCol([i \in DOMAIN f |-> (f[i] * f[i]) % BigBase])))

----------------------------------------------------------------------------
(* Rounding *)

(* np.round(num/den, 0) for num >= 0, den > 0: ties go to the even integer *)
RoundHalfEven(num, den) ==
    LET q == num \div den
        r == num % den
    IN  IF 2 * r < den THEN q
        ELSE IF 2 * r > den THEN q + 1
        ELSE IF q % 2 = 0 THEN q ELSE q + 1

RECURSIVE RootHi(_, _, _)
RootHi(p, q, h) ==
    IF ~BigLeq(BigMul(BigSquare(h), q), p) THEN h ELSE RootHi(p, q, 2 * h)

RECURSIVE RootFloor(_, _, _, _)
RootFloor(p, q, lo, hi) ==
    IF hi - lo <= 1 THEN lo
    ELSE LET mid == (lo + hi) \div 2
         IN  IF BigLeq(BigMul(BigSquare(mid), q), p)
             THEN RootFloor(p, q, mid, hi)
             ELSE RootFloor(p, q, lo, mid)

(* np.round(np.sqrt(p/q), 1) in tenths, for multi-digit p >= 0 and q > 0 *)
RoundSqrtTenths(p, q) ==
    LET p400 == BigScale(p, 400)
        k == RootFloor(p400, q, 0, RootHi(p400, q, 1))   \* floor(20 * sqrt(p/q))
        j == k \div 2
        tie == BigCmp(BigMul(BigSquare(k), q), p400) = 0
    IN  IF k % 2 = 0 THEN j
        ELSE IF tie /\ j % 2 = 0 THEN j
        ELSE j + 1

----------------------------------------------------------------------------
(* Files.  A name is its sequence of characters.  A file of the dataset   *)
(* directory is either a zero-byte file, which pd.read_csv refuses, or a   *)
(* csv with a header and `rows` beats whose types repeat the pattern       *)
(* `types` and whose beat-to-beat gaps repeat the pattern `gaps`, the      *)
(* first beat being at time 0.                                             *)

(* A slip: any name with a "." in it passes *)
endswith_any_extension(s, suffix) == \E i \in 1 .. Len(s) : s[i] = suffix[1]

endswith(s, suffix) ==
    /\ Len(s) >= Len(suffix)
    /\ SubSeq(s, Len(s) - Len(suffix) + 1, Len(s)) = suffix

isfile(dir, name) == name \in DOMAIN dir

Recording(types, gaps, rows) == [kind |-> "csv", types |-> types, gaps |-> gaps, rows |-> rows]
ZeroByteFile == [kind |-> "zero-byte"]

PatternAt(pat, i) == pat[((i - 1) % Len(pat)) + 1]

TimeAt(gaps, i) ==
    ((i - 1) \div Len(gaps)) * SeqSum(gaps) + SeqSum(SubSeq(gaps, 1, (i - 1) % Len(gaps)))

(* pd.read_csv: the columns 'time' and 'type' of the file *)
read_csv(file) ==
    [time |-> [i \in 1 .. file.rows |-> <<TimeAt(file.gaps, i)>>],
     type |-> [i \in 1 .. file.rows |-> <<PatternAt(file.types, i)>>]]

----------------------------------------------------------------------------
(* Column operations of pandas *)

shift(col) == [i \in DOMAIN col |-> IF i + 1 \in DOMAIN col THEN col[i + 1] ELSE NaN]

ColSub(a, b) ==
    [i \in DOMAIN a |-> IF a[i] = NaN \/ b[i] = NaN THEN NaN ELSE <<a[i][1] - b[i][1]>>]

ColCat(a, b) ==
    [i \in DOMAIN a |-> IF a[i] = NaN \/ b[i] = NaN THEN NaN ELSE a[i] \o b[i]]

Abs(v) == IF v < 0 THEN -v ELSE v

(* The values of column `col` on the rows kept by `keep`, missing ones     *)
(* dropped: value and 1 for a counted row, 0 and 0 for any other.          *)
Kept(col, keep) == [i \in DOMAIN col |-> IF keep[i] /\ col[i] # NaN THEN col[i][1] ELSE 0]
Counted(col, keep) == [i \in DOMAIN col |-> IF keep[i] /\ col[i] # NaN THEN 1 ELSE 0]
RowCount(keep) == SumCol([i \in DOMAIN keep |-> IF keep[i] THEN 1 ELSE 0])

(* A slip: the comparison turned round *)
CountBelow(col, keep, thr) ==
    SumCol([i \in DOMAIN col |->
               IF keep[i] /\ col[i] # NaN /\ Abs(col[i][1]) < thr * TimeScale THEN 1 ELSE 0])

(* np.sum(np.abs(col) > thr) over the rows kept, thr in the file's unit *)
CountAbove(col, keep, thr) ==
    SumCol([i \in DOMAIN col |->
               IF keep[i] /\ col[i] # NaN /\ Abs(col[i][1]) > thr * TimeScale THEN 1 ELSE 0])

----------------------------------------------------------------------------
(* calculate_HRV_metrics *)

(* A slip: the mean taken for seconds and converted to milliseconds *)
MeanNNFromSeconds(rr, keep) ==
    LET cnt == SumCol(Counted(rr, keep))
    IN  IF cnt = 0 THEN NaN
        ELSE <<RoundHalfEven(SumCol(Kept(rr, keep)) * (MsPerSecond \div TimeScale), cnt)>>

(* np.round(hrv_df['rr'].mean(), decimals=0): a cell, NaN when no row is   *)
(* kept (the mean of nothing)                                              *)
MeanNN(rr, keep) ==
    LET cnt == SumCol(Counted(rr, keep))
    IN  IF cnt = 0 THEN NaN
        ELSE <<RoundHalfEven(SumCol(Kept(rr, keep)), cnt * TimeScale)>>

(* np.round((1000/mean_nn)*60, decimals=1), in tenths *)
MeanBpm(mean_nn) ==
    PyFloat(RoundHalfEven(MsPerSecond * SecondsPerMinute * 10, mean_nn))

(* np.round(np.std(hrv_df['rr'], ddof=1), decimals=1): NaN for one value *)
Sdnn(rr, keep) ==
    LET cnt == SumCol(Counted(rr, keep))
        x == Kept(rr, keep)
        p == BigSub(BigMul(BigOf(cnt), BigSumSq(x)), BigSquare(SumCol(x)))
        q == BigOf(cnt * (cnt - 1) * TimeScale * TimeScale)
    IN  IF cnt <= 1 THEN PyNaN ELSE PyFloat(RoundSqrtTenths(p, q))

(* np.round(np.sqrt(np.mean(hrv_rr_df['diff_squared'].dropna())), 1); the  *)
(* squares are recomputed from diff, being too large to carry in a cell    *)
Rmssd(diff, keep) ==
    LET cnt == SumCol(Counted(diff, keep))
    IN  IF cnt = 0 THEN PyNaN
        ELSE PyFloat(RoundSqrtTenths(BigSumSq(Kept(diff, keep)),
                                     BigOf(cnt * TimeScale * TimeScale)))

(* A slip: the percentage taken over the rows that have a difference *)
PnnOverDifferences(diff, keep, thr, n) ==
    LET m == SumCol(Counted(diff, keep))
    IN  IF m = 0 THEN PyNaN
        ELSE PyFloat(RoundHalfEven(Percent * 10 * CountAbove(diff, keep, thr), m))

(* np.round(100 * np.sum(np.abs(hrv_rr_df['diff']) > thr) / n, 1) *)
Pnn(diff, keep, thr, n) ==
    PyFloat(RoundHalfEven(Percent * 10 * CountAbove(diff, keep, thr), n))

calculate_HRV_metrics(file_in, dir) ==
    IF ~isfile(dir, file_in) THEN PyNone             \* "cannot be accessed": no return
    ELSE IF dir[file_in].kind # "csv" THEN PyNone    \* read_csv raises, caught, no return
    ELSE
    LET hrv_data == read_csv(dir[file_in])
        time == hrv_data.time
        type == hrv_data.type
        time_next == shift(time)
        type_next == shift(type)
        rr == ColSub(time_next, time)
        rr_type == ColCat(type, type_next)
        rr_next == shift(rr)
        diff == ColSub(rr, rr_next)
        rr_next_type == shift(rr_type)
        hrv_df == [i \in DOMAIN rr_type |-> rr_type[i] = NN]
        n == RowCount(hrv_df)
        rounded == MeanNN(rr, hrv_df)
        mean_nn == rounded[1]
        hrv_rr_df == [i \in DOMAIN rr_type |-> hrv_df[i] /\ rr_next_type[i] = NN]
    IN  IF rounded = NaN THEN PyNone                 \* int(nan) raises, caught, no return
        ELSE IF mean_nn = 0 THEN PyNone              \* 1000/0 raises, caught, no return
        ELSE IF n >= MinNN
        THEN [py |-> "dict", filename |-> file_in, n |-> n,
              mean_nn |-> PyInt(mean_nn),
              mean_bpm |-> MeanBpm(mean_nn),
              sdnn |-> Sdnn(rr, hrv_df),
              rmssd |-> Rmssd(diff, hrv_rr_df),
              pnn20 |-> Pnn(diff, hrv_rr_df, Thr20, n),
              pnn50 |-> Pnn(diff, hrv_rr_df, Thr50, n)]
        ELSE [py |-> "dict", filename |-> file_in, n |-> n,
              mean_nn |-> PyNone, mean_bpm |-> PyNone, sdnn |-> PyNone,
              rmssd |-> PyNone, pnn20 |-> PyNone, pnn50 |-> PyNone]

----------------------------------------------------------------------------
(* process_HRV_files *)

(* A slip: the result put at the front *)
prepend(list, x) == <<x>> \o list

(* hrv_results.append(result_dict) *)
append(list, x) == Append(list, x)

(* pd.DataFrame(hrv_results) raises (AttributeError: 'NoneType' object has *)
(* no attribute 'keys') when the first entry is a dict, so that the list   *)
(* is read as a list of dicts, and a later entry is None.                  *)
DataFrameRaises(list) ==
    /\ list # <<>>
    /\ list[1].py = "dict"
    /\ \E k \in 1 .. Len(list) : list[k].py = "None"

(* pd.DataFrame(hrv_results): one row per entry; a list that starts with   *)
(* None becomes a single column of objects                                 *)
DataFrame(list) ==
    [shape |-> IF list = <<>> THEN "empty"
               ELSE IF list[1].py = "dict" THEN "records" ELSE "objects",
     rows |-> list]

NoFrame == [shape |-> "unset", rows |-> <<>>]

----------------------------------------------------------------------------
(* Inputs *)

MaxTypes == 4
MaxShort == 4
MaxFiles == 3

BeatTypes == {"N", "V"}
(* Gaps in fifths of the file's unit: 0.8 is 4, and 800, 820, 830, 860, 870 *)
(* are 4000, 4100, 4150, 4300, 4350.  A recording has a constant gap, two   *)
(* gaps in alternation, or three in rotation (successive differences of     *)
(* exactly 20, exactly 50, and 70).                                         *)
GapPatterns ==
    {<<0>>, <<4>>, <<4000>>, <<0, 4>>, <<4, 4000>>, <<4000, 4150>>, <<4000, 4300>>,
     <<4000, 4100, 4350>>}

SeqsUpTo(S, k) == UNION {[1 .. m -> S] : m \in 1 .. k}

TypePatterns == SeqsUpTo(BeatTypes, MaxTypes)

RowCounts == (0 .. MaxShort) \cup {MinNN, MinNN + 1, 2 * MinNN + 1, 3 * MinNN + 1}

Recordings ==
    {Recording(t, g, r) : <<t, g, r>> \in TypePatterns \X GapPatterns \X RowCounts}

SubjectName == <<"s", ".", "c", "s", "v">>

(* The directories the engine is called on: the subject's file holding any *)
(* recording, a zero-byte file, or no file at all                          *)
EngineDirs ==
    {[x \in {SubjectName} |-> f] : f \in Recordings \cup {ZeroByteFile}} \cup {<<>>}

FullCsv == <<"a", ".", "c", "s", "v">>
ShortCsv == <<"b", ".", "c", "s", "v">>
HeaderOnlyCsv == <<"e", ".", "c", "s", "v">>
MissingCsv == <<"g", ".", "c", "s", "v">>
NotCsv == <<"c", ".", "t", "x", "t">>

(* The dataset directory of a batch run; MissingCsv is listed but absent   *)
BatchDir ==
    (FullCsv :> Recording(<<"N">>, <<4000, 4150>>, MinNN + 1))
      @@ (ShortCsv :> Recording(<<"N">>, <<4000>>, 10))
      @@ (HeaderOnlyCsv :> Recording(<<"N">>, <<4000>>, 0))
      @@ (NotCsv :> Recording(<<"N">>, <<4000>>, MinNN + 1))

BatchNames == {FullCsv, ShortCsv, HeaderOnlyCsv, MissingCsv, NotCsv}

FileLists == {<<>>} \cup SeqsUpTo(BatchNames, MaxFiles)

----------------------------------------------------------------------------
(* The batch run: process_HRV_files(file_list_in, file_out) *)

Init ==
    /\ dataset = BatchDir
    /\ file_list_in \in FileLists
    /\ idx = 1
    /\ hrv_results = <<>>
    /\ calls = <<>>
    /\ df = NoFrame
    /\ to_csv_calls = 0
    /\ pc = "loop"
    /\ ret = PyNone

(* One turn of the loop on a name that ends with ".csv" *)
LoopCsv ==
    /\ pc = "loop"
    /\ idx <= Len(file_list_in)
    /\ endswith(file_list_in[idx], csv_suffix)
    /\ calls' = Append(calls, file_list_in[idx])
    /\ hrv_results' = append(hrv_results, calculate_HRV_metrics(file_list_in[idx], dataset))
    /\ idx' = idx + 1
    /\ UNCHANGED <<dataset, file_list_in, df, to_csv_calls, pc, ret>>

(* One turn of the loop on any other name: a message, nothing else *)
LoopSkip ==
    /\ pc = "loop"
    /\ idx <= Len(file_list_in)
    /\ ~endswith(file_list_in[idx], csv_suffix)
    /\ idx' = idx + 1
    /\ UNCHANGED <<dataset, file_list_in, hrv_results, calls, df, to_csv_calls, pc, ret>>

(* After the loop: the list becomes a dataframe *)
FrameBuilt ==
    /\ pc = "loop"
    /\ idx > Len(file_list_in)
    /\ ~DataFrameRaises(hrv_results)
    /\ df' = DataFrame(hrv_results)
    /\ pc' = "to_csv"
    /\ UNCHANGED <<dataset, file_list_in, idx, hrv_results, calls, to_csv_calls, ret>>

(* After the loop: pd.DataFrame raises, the handler prints, the run ends *)
FrameRaises ==
    /\ pc = "loop"
    /\ idx > Len(file_list_in)
    /\ DataFrameRaises(hrv_results)
    /\ pc' = "done"
    /\ UNCHANGED <<dataset, file_list_in, idx, hrv_results, calls, df, to_csv_calls, ret>>

(* df.to_csv(file_out_name, index=False) *)
ToCsv ==
    /\ pc = "to_csv"
    /\ to_csv_calls' = to_csv_calls + 1
    /\ pc' = "done"
    /\ UNCHANGED <<dataset, file_list_in, idx, hrv_results, calls, df, ret>>

Next == LoopCsv \/ LoopSkip \/ FrameBuilt \/ FrameRaises \/ ToCsv

Spec == Init /\ [][Next]_vars

----------------------------------------------------------------------------
(* One call of the engine: calculate_HRV_metrics(file_in) *)

EngineInit ==
    /\ dataset \in EngineDirs
    /\ file_list_in = <<SubjectName>>
    /\ idx = 1
    /\ hrv_results = <<>>
    /\ calls = <<>>
    /\ df = NoFrame
    /\ to_csv_calls = 0
    /\ pc = "call"
    /\ ret = PyNone

EngineCall ==
    /\ pc = "call"
    /\ ret' = calculate_HRV_metrics(file_list_in[idx], dataset)
    /\ pc' = "returned"
    /\ UNCHANGED <<dataset, file_list_in, idx, hrv_results, calls, df, to_csv_calls>>

EngineNext == EngineCall

EngineSpec == EngineInit /\ [][EngineNext]_vars

----------------------------------------------------------------------------
(* The terms of the properties, read off the file itself: beat i of a      *)
(* recording, the pairs of consecutive beats, the intervals.               *)

BeatType(f, i) == PatternAt(f.types, i)
BeatTime(f, i) == TimeAt(f.gaps, i)
Interval(f, i) == BeatTime(f, i + 1) - BeatTime(f, i)

(* beats i and i+1 exist and are both "N" *)
IsNNPair(f, i) ==
    /\ 1 <= i
    /\ i + 1 <= f.rows
    /\ BeatType(f, i) = "N"
    /\ BeatType(f, i + 1) = "N"

(* beats i, i+1 and i+2 exist and are all "N": the set S *)
InS(f, i) == IsNNPair(f, i) /\ IsNNPair(f, i + 1)

NNCount(f) == SumCol([i \in 1 .. f.rows |-> IF IsNNPair(f, i) THEN 1 ELSE 0])
SCount(f) == SumCol([i \in 1 .. f.rows |-> IF InS(f, i) THEN 1 ELSE 0])

NNIntervalSum(f) == SumCol([i \in 1 .. f.rows |-> IF IsNNPair(f, i) THEN Interval(f, i) ELSE 0])

SuccDiff(f, i) == Interval(f, i) - Interval(f, i + 1)

(* members of S whose successive difference exceeds thr units of the file *)
SAbove(f, thr) ==
    SumCol([i \in 1 .. f.rows |->
               IF InS(f, i) /\ Abs(SuccDiff(f, i)) > thr * TimeScale THEN 1 ELSE 0])

SDiffs(f) == [i \in 1 .. f.rows |-> IF InS(f, i) THEN SuccDiff(f, i) ELSE 0]

(* t tenths is num/den rounded to one decimal, whichever way a tie goes *)
IsTenthsOf(t, num, den) == 2 * Abs(t * den - 10 * num) <= den

(* t tenths is sqrt(p/q) rounded to one decimal, whichever way a tie goes *)
IsTenthsOfRoot(t, p, q) ==
    /\ t = 0 \/ BigLeq(BigMul(BigSquare(2 * t - 1), q), BigScale(p, 400))
    /\ BigLeq(BigScale(p, 400), BigMul(BigSquare(2 * t + 1), q))

AllNull(r) ==
    /\ r.mean_nn = PyNone
    /\ r.mean_bpm = PyNone
    /\ r.sdnn = PyNone
    /\ r.rmssd = PyNone
    /\ r.pnn20 = PyNone
    /\ r.pnn50 = PyNone

(* The engine has returned from a call on a csv file of beats *)
Returned == pc = "returned"
HasBeats == isfile(dataset, SubjectName) /\ dataset[SubjectName].kind = "csv"
Subject == dataset[SubjectName]

(* ".csv" are the last four characters of the name *)
IsCsvName(name) ==
    /\ Len(name) >= 4
    /\ name[Len(name) - 3] = "."
    /\ name[Len(name) - 2] = "c"
    /\ name[Len(name) - 1] = "s"
    /\ name[Len(name)] = "v"

(* The retained ids among those the loop has passed *)
RetainedSoFar == SelectSeq(SubSeq(file_list_in, 1, idx - 1), IsCsvName)

----------------------------------------------------------------------------
(* C1: every beat sequence with fewer than 500 NN pairs, a sequence with   *)
(* none included, yields a record whose six metrics are null and whose n   *)
(* is the number of positions i with type[i] = type[i+1] = "N".            *)
(* The statement of the claim; the code breaks it (EngineSpec).            *)
C1_BelowGateRecord ==
    (Returned /\ HasBeats /\ NNCount(Subject) < MinNN)
        => /\ ret.py = "dict"
           /\ ret.n = NNCount(Subject)
           /\ AllNull(ret)

(* C2: an empty beat sequence, or one without any NN pair, yields a record *)
(* with the subject id, n = 0 and six null metrics, not an absent result.  *)
(* The statement of the claim; the code breaks it (EngineSpec).            *)
C2_NoPairRecord ==
    (Returned /\ HasBeats /\ \A i \in 1 .. Subject.rows : ~IsNNPair(Subject, i))
        => /\ ret # PyNone
           /\ ret.filename = SubjectName
           /\ ret.n = 0
           /\ AllNull(ret)

(* C3: after the loop the output collection has one entry per retained id, *)
(* and the entry of a subject whose file cannot be accessed is a record    *)
(* that carries the subject's id with all metrics null.                    *)
(* The statement of the claim; the code breaks it (Spec).                  *)
C3_FailureRecord ==
    pc # "loop"
        => /\ Len(hrv_results) = Len(RetainedSoFar)
           /\ \A k \in 1 .. Len(RetainedSoFar) :
                 ~isfile(dataset, RetainedSoFar[k])
                     => /\ k <= Len(hrv_results)
                        /\ hrv_results[k].py = "dict"
                        /\ hrv_results[k].filename = RetainedSoFar[k]
                        /\ AllNull(hrv_results[k])

(* C4: at every point of the loop and after it, the k-th entry of the      *)
(* output collection is the engine's result for the k-th retained id of    *)
(* the ids passed so far, and the dataframe keeps that order.              *)
C4_OrderPreserved ==
    /\ Len(hrv_results) = Len(RetainedSoFar)
    /\ \A k \in 1 .. Len(RetainedSoFar) :
          hrv_results[k] = calculate_HRV_metrics(RetainedSoFar[k], dataset)
    /\ df # NoFrame => df.rows = hrv_results

C4_Witness ==
    /\ pc = "done"
    /\ Len(hrv_results) >= 2
    /\ hrv_results[1] # hrv_results[2]
    /\ hrv_results[1].py = "dict"
    /\ hrv_results[2].py = "dict"

(* C5: in every run the csv write happens exactly once, and only after the *)
(* loop has passed every id of the input list.                             *)
(* The statement of the claim; the code breaks it (Spec).                  *)
C5_SinkOnce ==
    /\ to_csv_calls <= 1
    /\ to_csv_calls = 1 => idx > Len(file_list_in)
    /\ pc = "done" => to_csv_calls = 1

(* C6: an id that does not end in ".csv" is skipped: the engine is called  *)
(* exactly for the retained ids passed so far, in order, there is one      *)
(* entry per call and none else, and the loop ends only after the last id. *)
C6_SkipNotFatal ==
    /\ calls = RetainedSoFar
    /\ Len(hrv_results) = Len(calls)
    /\ pc # "loop" => idx = Len(file_list_in) + 1

C6_Witness ==
    /\ pc = "done"
    /\ \E i, j \in 1 .. Len(file_list_in) :
          /\ i < j
          /\ ~IsCsvName(file_list_in[i])
          /\ IsCsvName(file_list_in[j])
    /\ Len(hrv_results) = Len(file_list_in) - 1

(* C7: whenever pnn20 and pnn50 are reported, pnn50 <= pnn20.              *)
C7_Pnn50AtMostPnn20 ==
    (Returned /\ ret.py = "dict" /\ ret.pnn20.py = "float" /\ ret.pnn50.py = "float")
        => ret.pnn50.tenths <= ret.pnn20.tenths

C7_Witness ==
    /\ Returned
    /\ ret.py = "dict"
    /\ ret.pnn20.py = "float"
    /\ ret.pnn50.py = "float"
    /\ 0 < ret.pnn50.tenths
    /\ ret.pnn50.tenths < ret.pnn20.tenths

(* exactly one beat is not "N", and it is neither the first nor the last *)
OneInnerEctopic(f) ==
    /\ f.rows >= 3
    /\ \E p \in 2 .. f.rows - 1 :
          \A i \in 1 .. f.rows : (BeatType(f, i) = "N") <=> (i # p)

AllNormal(f) == Recording(<<"N">>, f.gaps, f.rows)

(* C8: for L beats all "N" but one inner beat, the reported n is L-3, two  *)
(* less than the n reported for L beats all "N" at the same times.         *)
(* The statement of the claim; the code breaks it (EngineSpec).            *)
C8_InnerEctopicCount ==
    (Returned /\ HasBeats /\ OneInnerEctopic(Subject))
        => /\ ret.py = "dict"
           /\ ret.n = Subject.rows - 3
           /\ LET all == calculate_HRV_metrics(SubjectName, SubjectName :> AllNormal(Subject))
              IN  all.py = "dict" /\ all.n = ret.n + 2

(* 501 beats, every consecutive pair "NN", a constant gap of `gap` fifths *)
ConstantSpacing(f, gap) ==
    /\ f.rows = MinNN + 1
    /\ NNCount(f) = MinNN
    /\ \A i \in 1 .. f.rows - 1 : Interval(f, i) = gap

SteadyRecord ==
    [py |-> "dict", filename |-> SubjectName, n |-> MinNN,
     mean_nn |-> PyInt(800), mean_bpm |-> PyFloat(750), sdnn |-> PyFloat(0),
     rmssd |-> PyFloat(0), pnn20 |-> PyFloat(0), pnn50 |-> PyFloat(0)]

(* C9 as stated: timestamps in seconds, 0, 0.8, 1.6, ...: the record has   *)
(* n = 500, mean interval 800, 75.0 bpm and zeros.  The code breaks it.    *)
C9_SecondsScenario ==
    (Returned /\ HasBeats /\ ConstantSpacing(Subject, (8 * TimeScale) \div 10))
        => ret = SteadyRecord

(* C9 as amended: timestamps in milliseconds, 0, 800, 1600, ...: the       *)
(* record has n = 500, mean interval 800, 75.0 bpm and zeros; and every    *)
(* reported mean interval is the mean of the NN intervals in the unit of   *)
(* the timestamps, rounded to a whole number, the reported rate being      *)
(* 60000 over that rounded mean, to one decimal.                           *)
C9_MillisecondsScenario ==
    /\ (Returned /\ HasBeats /\ ConstantSpacing(Subject, 800 * TimeScale))
           => ret = SteadyRecord
    /\ (Returned /\ HasBeats /\ ret.py = "dict" /\ ret.mean_nn # PyNone)
           => /\ 2 * Abs(ret.mean_nn.v * NNCount(Subject) * TimeScale - NNIntervalSum(Subject))
                    <= NNCount(Subject) * TimeScale
              /\ IsTenthsOf(ret.mean_bpm.tenths, 60000, ret.mean_nn.v)

C9_Witness ==
    /\ Returned
    /\ HasBeats
    /\ ConstantSpacing(Subject, 800 * TimeScale)
    /\ ret.py = "dict"
    /\ ret.mean_nn = PyInt(800)
    /\ ret.mean_bpm = PyFloat(750)

(* C10: when n >= 500, pnn50 and pnn20 are 100 times the number of members *)
(* of S (beats i, i+1, i+2 all "N") whose successive difference exceeds 50 *)
(* and 20, over n, the number of NN pairs; and rmssd is the root of the    *)
(* mean square of the successive differences of the members of S, absent   *)
(* when S is empty.                                                        *)
C10_SuccessiveDifferences ==
    (Returned /\ HasBeats /\ ret.py = "dict" /\ ret.n >= MinNN)
        => /\ ret.n = NNCount(Subject)
           /\ ret.pnn50.py = "float"
           /\ IsTenthsOf(ret.pnn50.tenths, 100 * SAbove(Subject, 50), NNCount(Subject))
           /\ ret.pnn20.py = "float"
           /\ IsTenthsOf(ret.pnn20.tenths, 100 * SAbove(Subject, 20), NNCount(Subject))
           /\ IF SCount(Subject) = 0
              THEN ret.rmssd = PyNaN
              ELSE /\ ret.rmssd.py = "float"
                   /\ IsTenthsOfRoot(ret.rmssd.tenths, BigSumSq(SDiffs(Subject)),
                                     BigOf(SCount(Subject) * TimeScale * TimeScale))

(* a run where S is a proper part of the NN pairs and the two denominators *)
(* give different percentages                                              *)
C10_Witness ==
    /\ Returned
    /\ HasBeats
    /\ ret.py = "dict"
    /\ ret.n >= MinNN
    /\ 0 < SCount(Subject)
    /\ 2 * SCount(Subject) <= NNCount(Subject)
    /\ 0 < SAbove(Subject, 50)
    /\ ~IsTenthsOf(ret.pnn50.tenths, 100 * SAbove(Subject, 50), SCount(Subject))

====
